---- MODULE Spec2Model ----
(***************************************************************************)
(* Model of the Smart Routing Engine dashboard (src/main.py).              *)
(*                                                                         *)
(* The dashboard is a Streamlit script: every user interaction re-runs the *)
(* whole script once (a render pass).  The persistent state is the session *)
(* API url, the widget values and the selected page; everything else is    *)
(* what the last pass rendered and which HTTP requests it issued.          *)
(*                                                                         *)
(* Strings are sequences of one-character strings so that str.title(),     *)
(* str.strip() and str.replace() are computed, not assumed.  JSON values   *)
(* are tagged records [t, s, n].  Loads and scores are integers; the       *)
(* float comparison  a / m * 100 >= 80  is modelled by its exact value     *)
(* (a * 100 >= 80 * m), which agrees with IEEE doubles on the checked      *)
(* ranges.                                                                 *)
(***************************************************************************)
EXTENDS Integers, Sequences, FiniteSets, TLC

VARIABLES
    api_url,            \* st.session_state.api_url
    api_url_input,      \* value held by the sidebar text_input widget
    page,               \* value held by the navigation selectbox
    plotly_available,   \* PLOTLY_AVAILABLE
    indicator,          \* what check_api_status rendered in the last pass
    dispatched,         \* page function main() called in the last pass
    requests,           \* HTTP requests of the last pass, in order, with outcome
    activity,           \* activity-feed lines rendered in the last pass
    agent_rows,         \* agent rows rendered in the last pass
    notes,              \* inline messages (st.error / st.info / ...) of the last pass
    analytics,          \* what the analytics page showed in the last pass
    result,             \* the routing result handed to display_routing_result
    display,            \* what display_routing_result rendered
    raised              \* an exception escaped the script in the last pass

vars == << api_url, api_url_input, page, plotly_available,
           indicator, dispatched, requests, activity, agent_rows, notes,
           analytics, result, display, raised >>

-----------------------------------------------------------------------------
(* Bounds of the model *)

MaxScore == 100
MaxChats == 10
MaxPad == 1
MaxDates == 9

-----------------------------------------------------------------------------
(* Strings *)

LowerLetters ==
    << "a","b","c","d","e","f","g","h","i","j","k","l","m",
       "n","o","p","q","r","s","t","u","v","w","x","y","z" >>

UpperLetters ==
    << "A","B","C","D","E","F","G","H","I","J","K","L","M",
       "N","O","P","Q","R","S","T","U","V","W","X","Y","Z" >>

IsLower(c) == \E i \in 1..26 : LowerLetters[i] = c
IsUpper(c) == \E i \in 1..26 : UpperLetters[i] = c
IsCased(c) == IsLower(c) \/ IsUpper(c)

ToUpper(c) ==
    IF IsLower(c) THEN UpperLetters[CHOOSE i \in 1..26 : LowerLetters[i] = c] ELSE c

ToLower(c) ==
    IF IsUpper(c) THEN LowerLetters[CHOOSE i \in 1..26 : UpperLetters[i] = c] ELSE c

\* str.title(): a cased character is upper-cased when it starts a word (the
\* previous character is not cased) and lower-cased otherwise.
Title(s) ==
    [i \in 1..Len(s) |->
        IF i > 1 /\ IsCased(s[i-1]) THEN ToLower(s[i]) ELSE ToUpper(s[i])]

\* str.replace('_', ' ')
ReplaceUnderscore(s) ==
    [i \in 1..Len(s) |-> IF s[i] = "_" THEN " " ELSE s[i]]

IsSpace(c) == c = " "

RECURSIVE LStrip(_)
LStrip(s) ==
    IF s # << >> /\ IsSpace(Head(s)) THEN LStrip(Tail(s)) ELSE s

RECURSIVE RStrip(_)
RStrip(s) ==
    IF s # << >> /\ IsSpace(s[Len(s)]) THEN RStrip(SubSeq(s, 1, Len(s) - 1)) ELSE s

\* str.strip()
Strip(s) == RStrip(LStrip(s))

\* every way of writing the word w in upper and lower case
Casings(w) ==
    { [i \in 1..Len(w) |-> IF i \in U THEN ToUpper(w[i]) ELSE ToLower(w[i])] :
        U \in SUBSET (1..Len(w)) }

LowerCase(s) == [i \in 1..Len(s) |-> ToLower(s[i])]

W_positive == << "p","o","s","i","t","i","v","e" >>
W_negative == << "n","e","g","a","t","i","v","e" >>
W_neutral  == << "n","e","u","t","r","a","l" >>
W_high     == << "h","i","g","h" >>
W_medium   == << "m","e","d","i","u","m" >>
W_low      == << "l","o","w" >>
W_sales    == << "s","a","l","e","s" >>
W_support  == << "s","u","p","p","o","r","t" >>
W_NA       == << "N","/","A" >>
W_None     == << "N","o","n","e" >>
W_angry    == << "a","n","g","r","y" >>
W_veryhigh == << "v","e","r","y"," ","h","i","g","h" >>
W_agent    == << "S","a","r","a","h" >>
W_reason   == << "t","o","p" >>
W_crit     == << "b","u","d","g","e","t","_","f","i","t" >>

-----------------------------------------------------------------------------
(* JSON values: t is the type tag, s the text, n the number *)

Str(s)  == [t |-> "str",  s |-> s,     n |-> 0]
Num(n)  == [t |-> "num",  s |-> << >>, n |-> n]
Bool(b) == [t |-> "bool", s |-> << >>, n |-> IF b THEN 1 ELSE 0]
Null    == [t |-> "null", s |-> << >>, n |-> 0]
\* a one-entry object {s: n}, and one whose value is not a number
Dict(k, n) == [t |-> "dict",    s |-> k, n |-> n]
BadDict(k) == [t |-> "baddict", s |-> k, n |-> 0]
\* a key that is not in the object
Absent  == [t |-> "absent", s |-> << >>, n |-> 0]

\* decimal digits of a natural number, as str() prints it
DigitChars == << "0","1","2","3","4","5","6","7","8","9" >>

RECURSIVE Digits(_)
Digits(n) ==
    IF n < 10 THEN << DigitChars[n + 1] >>
    ELSE Digits(n \div 10) \o << DigitChars[(n % 10) + 1] >>

\* str(v) as an f-string renders it
PyStr(v) ==
    CASE v.t = "str"  -> v.s
      [] v.t = "num"  -> Digits(v.n)
      [] v.t = "null" -> W_None
      [] v.t = "bool" -> IF v.n = 1 THEN << "T","r","u","e" >> ELSE << "F","a","l","s","e" >>
      [] OTHER        -> << "{", "}" >>

\* bool(v)
Truthy(v) ==
    CASE v.t = "str"  -> v.s # << >>
      [] v.t = "num"  -> v.n # 0
      [] v.t = "bool" -> v.n = 1
      [] v.t = "null" -> FALSE
      [] v.t = "absent" -> FALSE
      [] OTHER        -> TRUE

ResultKeys ==
    { "intent", "sentiment", "urgency", "confidence", "alps_score",
      "priority_level", "score_breakdown", "assigned_agent", "escalated",
      "routing_reason" }

\* dict.get(key, default)
Get(d, key, default) == IF d[key].t = "absent" THEN default ELSE d[key]

\* key in dict
HasKey(d, key) == d[key].t # "absent"

-----------------------------------------------------------------------------
(* display_routing_result *)

\* a rendered widget: kind, label, color tag, text, number
Item(w, k, c, v, n) == [w |-> w, k |-> k, c |-> c, v |-> v, n |-> n]

\* a stage of the function: the items it rendered and whether it completed
Stage(items, ok) == [items |-> items, ok |-> ok]

IsNumber(v) == v.t \in {"num", "bool"}

\* {"Positive": green, "Negative": red, "Neutral": yellow}.get(sentiment, white)
sentiment_color_swapped(sentiment) ==
    CASE sentiment = Title(W_positive) -> "red"
      [] sentiment = Title(W_negative) -> "green"
      [] sentiment = Title(W_neutral)  -> "yellow"
      [] OTHER                         -> "white"

sentiment_color(sentiment) ==
    CASE sentiment = Title(W_positive) -> "green"
      [] sentiment = Title(W_negative) -> "red"
      [] sentiment = Title(W_neutral)  -> "yellow"
      [] OTHER                         -> "white"

\* {"High": red, "Medium": yellow, "Low": green}.get(urgency, white)
urgency_color(urgency) ==
    CASE urgency = Title(W_high)   -> "red"
      [] urgency = Title(W_medium) -> "yellow"
      [] urgency = Title(W_low)    -> "green"
      [] OTHER                     -> "white"

HighScore == 80
MediumScore == 60

\* the priority indicator of the ALPS section
priority_band_strict(alps_score) ==
    IF alps_score > HighScore THEN "HIGH PRIORITY LEAD"
    ELSE IF alps_score >= MediumScore THEN "MEDIUM PRIORITY LEAD"
    ELSE "STANDARD LEAD"

priority_band(alps_score) ==
    IF alps_score >= HighScore THEN "HIGH PRIORITY LEAD"
    ELSE IF alps_score >= MediumScore THEN "MEDIUM PRIORITY LEAD"
    ELSE "STANDARD LEAD"

\* the text-based score display used when plotly is missing
score_text(alps_score) ==
    IF alps_score >= HighScore THEN "Excellent Score"
    ELSE IF alps_score >= MediumScore THEN "Good Score"
    ELSE "Needs Improvement"

\* result.get(key, 'N/A').title() followed by the metric
TitleStage(res, key, label, withColor) ==
    LET v == Get(res, key, Str(W_NA)) IN
    IF v.t # "str" THEN Stage(<< >>, FALSE)      \* no .title() on None, int, ...
    ELSE LET shown == Title(v.s)
             color == IF ~withColor THEN ""
                      ELSE IF key = "sentiment" THEN sentiment_color(shown)
                      ELSE urgency_color(shown)
         IN Stage(<< Item("metric", label, color, shown, 0) >>, TRUE)

\* f"{confidence:.1%}": the number is kept in thousandths
ConfidenceStage(res) ==
    LET v == Get(res, "confidence", Num(0)) IN
    IF ~IsNumber(v) THEN Stage(<< >>, FALSE)
    ELSE Stage(<< Item("metric", "Confidence", "", << >>,
                       IF v.t = "bool" THEN 1000 * v.n ELSE v.n) >>, TRUE)

\* the left column of the ALPS section: gauge, or metric and score text
ScoreColumnStage(alps, plotly) ==
    IF plotly
    THEN IF alps.t \in {"num", "bool", "null"}
         THEN Stage(<< Item("gauge", "ALPS Score", "", PyStr(alps), alps.n) >>, TRUE)
         ELSE Stage(<< >>, FALSE)                \* the figure rejects the value
    ELSE IF IsNumber(alps)
         THEN Stage(<< Item("metric", "ALPS Score", "", PyStr(alps), alps.n),
                       Item("score", score_text(alps.n), "", << >>, alps.n) >>, TRUE)
         ELSE Stage(<< Item("metric", "ALPS Score", "", PyStr(alps), alps.n) >>, FALSE)

\* the right column of the ALPS section: the priority indicator
PriorityStage(alps) ==
    IF IsNumber(alps)
    THEN Stage(<< Item("band", priority_band(alps.n), "", << >>, alps.n) >>, TRUE)
    ELSE Stage(<< >>, FALSE)                     \* None >= 80, "85" >= 80

\* the score breakdown: criteria.replace('_', ' ').title() and f"{score:.2f}"
BreakdownStage(res) ==
    LET bd == res["score_breakdown"] IN
    IF ~HasKey(res, "score_breakdown") THEN Stage(<< >>, TRUE)
    ELSE IF bd.t = "dict"
    THEN Stage(<< Item("text", "Score Breakdown", "", << >>, 0),
                  Item("criterion", "Score Breakdown", "",
                       Title(ReplaceUnderscore(bd.s)), bd.n) >>, TRUE)
    ELSE Stage(<< Item("text", "Score Breakdown", "", << >>, 0) >>, FALSE)

\* if result.get('intent') == 'sales' and 'alps_score' in result
ShowsAlps(res) == res["intent"] = Str(W_sales) /\ HasKey(res, "alps_score")

RoutingStage(res) ==
    Stage(<< Item("subheader", "Routing Decision", "", << >>, 0),
             Item("info", "Assigned Agent", "",
                  PyStr(Get(res, "assigned_agent", Str(W_NA))), 0),
             Item("routing",
                  IF Truthy(res["escalated"]) THEN "Escalated to Manager"
                                              ELSE "Standard Routing",
                  "", << >>, 0),
             Item("text", "Routing Reason", "",
                  PyStr(Get(res, "routing_reason", Str(W_NA))), 0),
             Item("json", "View Raw Response", "", << >>, 0) >>, TRUE)

\* the stages of display_routing_result in program order
DisplayStages(res, plotly) ==
    << Stage(<< Item("success", "Message Processed Successfully!", "", << >>, 0),
                Item("subheader", "AI Classification", "", << >>, 0) >>, TRUE),
       TitleStage(res, "intent", "Intent", FALSE),
       TitleStage(res, "sentiment", "Sentiment", TRUE),
       TitleStage(res, "urgency", "Urgency", TRUE),
       ConfidenceStage(res) >>
    \o (IF ShowsAlps(res)
        THEN << Stage(<< Item("subheader", "ALPS Scoring Analysis", "", << >>, 0) >>, TRUE),
                ScoreColumnStage(res["alps_score"], plotly),
                PriorityStage(res["alps_score"]),
                BreakdownStage(res) >>
        ELSE << >>)
    \o << RoutingStage(res) >>

\* run the stages until one raises
RECURSIVE RunStages(_)
RunStages(stages) ==
    IF stages = << >> THEN [items |-> << >>, raised |-> FALSE]
    ELSE IF ~Head(stages).ok THEN [items |-> Head(stages).items, raised |-> TRUE]
    ELSE LET rest == RunStages(Tail(stages))
         IN [items |-> Head(stages).items \o rest.items, raised |-> rest.raised]

display_routing_result(res, plotly) == RunStages(DisplayStages(res, plotly))

NoDisplay == [items |-> << >>, raised |-> FALSE]

\* the items of a display with the given kind / the given label
ItemsOfKind(d, w) == { d.items[i] : i \in { j \in 1..Len(d.items) : d.items[j].w = w } }
ItemsLabelled(d, k) == { d.items[i] : i \in { j \in 1..Len(d.items) : d.items[j].k = k } }

-----------------------------------------------------------------------------
(* Agent status: show_agent_status and show_demo_agent_status *)

OverloadedPct == 80
BusyPct == 60

\* load_pct >= pct, where load_pct = (active_chats / max_chats) * 100
LoadAtLeast(active, max, pct) == active * 100 >= pct * max

\* the status label and the status-column badge of the live sales loop
sales_status_strict(active, max) ==
    IF active * 100 > OverloadedPct * max THEN "Overloaded"
    ELSE IF LoadAtLeast(active, max, BusyPct) THEN "Busy"
    ELSE "Available"

sales_status(active, max) ==
    IF LoadAtLeast(active, max, OverloadedPct) THEN "Overloaded"
    ELSE IF LoadAtLeast(active, max, BusyPct) THEN "Busy"
    ELSE "Available"

sales_badge(active, max) ==
    IF LoadAtLeast(active, max, OverloadedPct) THEN "Overloaded"
    ELSE IF LoadAtLeast(active, max, BusyPct) THEN "Busy"
    ELSE "Ready"

\* the same two of the live support loop
support_status(active, max) ==
    IF LoadAtLeast(active, max, OverloadedPct) THEN "Overloaded"
    ELSE IF LoadAtLeast(active, max, BusyPct) THEN "Busy"
    ELSE "Available"

support_badge(active, max) ==
    IF LoadAtLeast(active, max, OverloadedPct) THEN "Overloaded"
    ELSE IF LoadAtLeast(active, max, BusyPct) THEN "Busy"
    ELSE "Ready"

\* and of the demo loop
demo_status(active, max) ==
    IF LoadAtLeast(active, max, OverloadedPct) THEN "Overloaded"
    ELSE IF LoadAtLeast(active, max, BusyPct) THEN "Busy"
    ELSE "Available"

demo_badge(active, max) ==
    IF LoadAtLeast(active, max, OverloadedPct) THEN "Overloaded"
    ELSE IF LoadAtLeast(active, max, BusyPct) THEN "Busy"
    ELSE "Ready"

Agent(name, active, max, perf) ==
    [name |-> name, active_chats |-> active, max_chats |-> max, performance |-> perf]

\* One iteration of an agent loop.  The row records how far the iteration
\* got: computed (load_pct and status exist), named (the name line is
\* written), label (the progress bar with the status label is drawn), chats,
\* perf, and the badge of the status column ("" when it was not reached);
\* fields are the keys of the agent object.
\* strict: st.progress rejects a value outside [0.0, 1.0].
\* the status label and the badge as the loop named loop computes them
LoopStatus(loop, active, max) ==
    CASE loop = "sales"   -> sales_status(active, max)
      [] loop = "support" -> support_status(active, max)
      [] loop = "demo"    -> demo_status(active, max)

LoopBadge(loop, active, max) ==
    CASE loop = "sales"   -> sales_badge(active, max)
      [] loop = "support" -> support_badge(active, max)
      [] loop = "demo"    -> demo_badge(active, max)

AgentRow(agent, src, team, strict, loop) ==
    LET a == agent.active_chats
        m == agent.max_chats
        computed == a.t = "num" /\ m.t = "num" /\ m.n # 0
        named == computed /\ agent.name.t # "absent"
        label == named /\ (strict => a.n <= m.n)
        perf  == label /\ agent.performance.t # "absent"
    IN [src |-> src, team |-> team,
        fields |-> { k \in DOMAIN agent : agent[k].t # "absent" },
        name |-> PyStr(agent.name), active |-> a.n, max |-> m.n,
        computed |-> computed,
        status |-> IF computed THEN LoopStatus(loop, a.n, m.n) ELSE "",
        named |-> named, label |-> label, chats |-> label, perf |-> perf,
        badge |-> IF perf THEN LoopBadge(loop, a.n, m.n) ELSE "",
        ok |-> perf]

\* the rows of one loop: iterations up to and including the first that raises
LoopRows(agents, src, team, strict, loop) ==
    LET all == [i \in 1..Len(agents) |->
                   AgentRow(agents[i], src, team, strict, loop)]
        bad == { i \in 1..Len(agents) : ~all[i].ok }
    IN IF bad = {} THEN all
       ELSE SubSeq(all, 1, CHOOSE i \in bad : \A j \in bad : i <= j)

AllOk(rows) == \A i \in 1..Len(rows) : rows[i].ok

W_sarah == << "S","a","r","a","h"," ","C","h","e","n" >>
W_mike  == << "M","i","k","e"," ","J","o","h","n","s","o","n" >>
W_emma  == << "E","m","m","a"," ","D","a","v","i","s" >>

demo_sales ==
    << Agent(Str(W_sarah), Num(3), Num(10), Num(92)),
       Agent(Str(W_mike),  Num(7), Num(10), Num(87)),
       Agent(Str(W_emma),  Num(2), Num(8),  Num(91)) >>

\* show_demo_agent_status: [notes, rows]
show_demo_agent_status(strict) ==
    [notes |-> << "Sales Team" >>,
     rows  |-> LoopRows(demo_sales, "demo", "sales", strict, "demo")]

\* An HTTP outcome: the call raised (exc), or returned status with a body.
Outcome(exc, status, body) == [exc |-> exc, status |-> status, body |-> body]

\* The body of /api/v1/agents/status: json (it parses to an object),
\* and the two team lists of its "agents" object, when present.
AgentsBody(json, has_sales, sales, has_support, support) ==
    [json |-> json, has_sales |-> has_sales, sales |-> sales,
     has_support |-> has_support, support |-> support]

\* show_agent_status after the request: [notes, rows]
show_agent_status(resp, strict) ==
    LET body == resp.body
        salesRows == IF body.has_sales
                     THEN LoopRows(body.sales, "live", "sales", strict, "sales")
                     ELSE << >>
        salesOk == AllOk(salesRows)
        supportRows == IF salesOk /\ body.has_support
                       THEN LoopRows(body.support, "live", "support", strict, "support")
                       ELSE << >>
        liveNotes == (IF body.has_sales THEN << "Sales Team" >> ELSE << >>)
                     \o (IF salesOk /\ body.has_support
                         THEN << "Support Team" >> ELSE << >>)
        demo == show_demo_agent_status(strict)
        fallback == << "Error connecting to API", "Showing demo data..." >>
    IN IF resp.exc
       THEN [notes |-> fallback \o demo.notes, rows |-> demo.rows]
       ELSE IF resp.status # 200
       THEN [notes |-> << "Failed to fetch agent status" >>, rows |-> << >>]
       ELSE IF ~body.json
       THEN [notes |-> fallback \o demo.notes, rows |-> demo.rows]
       ELSE IF salesOk /\ AllOk(supportRows)
       THEN [notes |-> liveNotes, rows |-> salesRows \o supportRows]
       ELSE [notes |-> liveNotes \o fallback \o demo.notes,
             rows  |-> salesRows \o supportRows \o demo.rows]

-----------------------------------------------------------------------------
(* Overview: show_overview and show_demo_activity *)

\* An ISO timestamp is kept as the chunks date, "T", HH, ":", MM, ":", SS, "Z".
W_stamp == << "2024-05-01", "T", "14", ":", "32", ":", "00", "Z" >>

\* datetime.fromisoformat(s.replace("Z", "+00:00")) accepts s
IsIso(s) == Len(s) = 8 /\ s[2] = "T" /\ s[4] = ":" /\ s[6] = ":" /\ s[8] = "Z"

\* timestamp.strftime("%H:%M")
HourMinute(s) == << s[3], ":", s[5] >>

Routing(assigned_at, intent, agent_id, alps_score) ==
    [assigned_at |-> assigned_at, intent |-> intent, agent_id |-> agent_id,
     alps_score |-> alps_score]

\* a line of the activity feed; fields are the keys of the entry it was built from
Line(src, fields, icon, time, text, agent, score) ==
    [src |-> src, fields |-> fields, icon |-> icon, time |-> time,
     text |-> text, agent |-> agent, score |-> score]

\* the body of one iteration of the live loop completes
RoutingOk(r) ==
    /\ r.assigned_at.t = "str" /\ IsIso(r.assigned_at.s)
    /\ r.intent.t = "str"
    /\ r.agent_id.t # "absent"

\* the line one iteration writes
RoutingLine(r) ==
    Line("live", {"assigned_at", "alps_score", "intent", "agent_id"}, "ok",
         HourMinute(r.assigned_at.s), Title(r.intent.s), PyStr(r.agent_id),
         IF Truthy(r.alps_score) THEN PyStr(r.alps_score) ELSE << >>)

\* for routing in routings[:5]: the lines written before an iteration raises
LiveLines(routings) ==
    LET shown == SubSeq(routings, 1, IF Len(routings) < 5 THEN Len(routings) ELSE 5)
        bad == { i \in 1..Len(shown) : ~RoutingOk(shown[i]) }
        n == IF bad = {} THEN Len(shown)
             ELSE (CHOOSE i \in bad : \A j \in bad : i <= j) - 1
    IN [lines |-> [i \in 1..n |-> RoutingLine(shown[i])], ok |-> bad = {}]

activity_data ==
    << [time |-> << "14", ":", "32" >>, status |-> "ok",
        message |-> << "New sales lead -> Sarah Chen (ALPS: 85.2)" >>],
       [time |-> << "14", ":", "30" >>, status |-> "warn",
        message |-> << "Urgent support -> John Smith (Escalated)" >>],
       [time |-> << "14", ":", "28" >>, status |-> "ok",
        message |-> << "Sales lead -> Mike Johnson (ALPS: 72.1)" >>],
       [time |-> << "14", ":", "25" >>, status |-> "fail",
        message |-> << "SLA breach -> Chat reassigned" >>] >>

show_demo_activity ==
    [i \in 1..Len(activity_data) |->
        Line("demo", DOMAIN activity_data[i], activity_data[i].status,
             activity_data[i].time, activity_data[i].message, << >>, << >>)]

\* The body of /api/v1/analytics/recent-routings: json (it parses to an
\* object) and its "routings" list ([] when the key is missing).
RoutingsBody(json, routings) == [json |-> json, routings |-> routings]

\* show_overview after the request: [notes, lines]
show_overview(resp) ==
    LET live == LiveLines(resp.body.routings) IN
    IF resp.exc THEN [notes |-> << >>, lines |-> show_demo_activity]
    ELSE IF resp.status # 200 THEN [notes |-> << >>, lines |-> show_demo_activity]
    ELSE IF ~resp.body.json THEN [notes |-> << >>, lines |-> show_demo_activity]
    ELSE IF resp.body.routings = << >>
    THEN [notes |-> << "No recent routing data available" >>, lines |-> << >>]
    ELSE IF live.ok THEN [notes |-> << >>, lines |-> live.lines]
    ELSE [notes |-> << >>, lines |-> live.lines \o show_demo_activity]

-----------------------------------------------------------------------------
(* check_api_status, test_all_endpoints, route_test_message *)

check_api_status_no_catch(resp) ==
    IF resp.exc THEN "Raised"
    ELSE IF resp.status = 200 THEN "Online"
    ELSE "Error"

check_api_status(resp) ==
    IF resp.exc THEN "Offline"
    ELSE IF resp.status = 200 THEN "Online"
    ELSE "Error"

\* a request as the pass issued it, with what came back
Request(site, method, endpoint, base, resp) ==
    [site |-> site, method |-> method, endpoint |-> endpoint, base |-> base,
     exc |-> resp.exc, status |-> resp.status]

endpoints ==
    << [name |-> "Health", path |-> "/health"],
       [name |-> "Agent Status", path |-> "/api/v1/agents/status"],
       [name |-> "Recent Routings", path |-> "/api/v1/analytics/recent-routings"] >>

\* one iteration of the loop of test_all_endpoints: the line it shows
EndpointNote(name, resp) ==
    IF resp.exc THEN << name, "Connection failed" >>
    ELSE IF resp.status # 200 THEN << name, "Error" >>
    ELSE IF name = "Health" /\ ~resp.body.json THEN << name, "OK", "Connection failed" >>
    ELSE << name, "OK" >>

\* test_all_endpoints with the three outcomes: [notes, requests]
test_all_endpoints_retry(base, resps) ==
    [notes |-> << "Testing API endpoints..." >>
               \o EndpointNote(endpoints[1].name, resps[1])
               \o EndpointNote(endpoints[2].name, resps[2])
               \o EndpointNote(endpoints[3].name, resps[3]),
     requests |->
         [i \in 1..3 |-> Request("test_all_endpoints", "GET", endpoints[i].path,
                                 base, resps[i])]
         \o (IF resps[1].exc \/ resps[1].status # 200
             THEN << Request("test_all_endpoints", "GET", endpoints[1].path,
                             base, resps[1]) >>
             ELSE << >>)]

test_all_endpoints(base, resps) ==
    [notes |-> << "Testing API endpoints..." >>
               \o EndpointNote(endpoints[1].name, resps[1])
               \o EndpointNote(endpoints[2].name, resps[2])
               \o EndpointNote(endpoints[3].name, resps[3]),
     requests |->
         [i \in 1..3 |-> Request("test_all_endpoints", "GET", endpoints[i].path,
                                 base, resps[i])]]

\* The body of /api/v1/route: json (it parses), dict (it is an object),
\* extra (it has keys other than the ones the dashboard reads), res (the
\* keys the dashboard reads).
RouteBody(json, dict, extra, res) ==
    [json |-> json, dict |-> dict, extra |-> extra, res |-> res]

NoResult == [k \in ResultKeys |-> Absent]

\* route_test_message after the request: [notes, returned, value]
\* returned: the function returned the parsed body rather than None
route_test_message(resp) ==
    IF resp.exc THEN [notes |-> << "Connection Error" >>, returned |-> FALSE]
    ELSE IF resp.status # 200 THEN [notes |-> << "API Error" >>, returned |-> FALSE]
    ELSE IF ~resp.body.json THEN [notes |-> << "Connection Error" >>, returned |-> FALSE]
    ELSE [notes |-> << >>, returned |-> TRUE]

\* if result: -- the returned value is neither None nor empty
ResultTruthy(body) ==
    ~body.dict \/ body.extra \/ \E k \in ResultKeys : HasKey(body.res, k)

\* display_routing_result on a value that is not an object: the banner and
\* the subheader are drawn, then result.get raises
display_non_dict ==
    [items |-> << Item("success", "Message Processed Successfully!", "", << >>, 0),
                  Item("subheader", "AI Classification", "", << >>, 0) >>,
     raised |-> TRUE]

-----------------------------------------------------------------------------
(* Analytics: show_analytics and show_text_analytics.  Numbers with one     *)
(* decimal are kept in tenths.                                              *)

intent_counts   == << 78, 49 >>
priority_counts == << 23, 45, 32 >>
alps_scores     == << 852, 721, 913, 687, 794, 831, 768, 889, 653, 921 >>
daily_messages  == << 45, 52, 38, 63, 71, 44, 58, 61 >>

Shown(mode, ic, ip, pc, pp, avg, hi, lo, davg, dpeak, scores, daily) ==
    [mode |-> mode, intent_counts |-> ic, intent_pct |-> ip,
     priority_counts |-> pc, priority_pct |-> pp,
     alps_avg |-> avg, alps_high |-> hi, alps_low |-> lo,
     daily_avg |-> davg, daily_peak |-> dpeak,
     alps_series |-> scores, daily_series |-> daily]

NoAnalytics == Shown("none", << >>, << >>, << >>, << >>, 0, 0, 0, 0, 0, << >>, << >>)

\* the numbers show_text_analytics writes
show_text_analytics ==
    Shown("text", << 78, 49 >>, << 614, 386 >>, << 23, 45, 32 >>, << 230, 450, 320 >>,
          784, 921, 653, 54, 71, << >>, << >>)

\* show_analytics; ndays is len(dates) of the selected date range.
\* [shown, raised]: the DataFrame constructor raises when the eight-element
\* list is shorter than the date range.
show_analytics(plotly, ndays) ==
    IF ~plotly THEN [shown |-> show_text_analytics, raised |-> FALSE]
    ELSE IF ndays > Len(daily_messages)
    THEN [shown |-> Shown("chart", intent_counts, << >>, priority_counts, << >>,
                          0, 0, 0, 0, 0, alps_scores, << >>),
          raised |-> TRUE]
    ELSE [shown |-> Shown("chart", intent_counts, << >>, priority_counts, << >>,
                          0, 0, 0, 0, 0, alps_scores,
                          SubSeq(daily_messages, 1, ndays)),
          raised |-> FALSE]

\* the date range the two date inputs start with: today - 7 days .. today
DefaultDates == 8

-----------------------------------------------------------------------------
(* The script: module level, main and the pages *)

\* 'api_url' is not in st.session_state
Unset == << "<unset>" >>

DEFAULT_API_URL == << "http://localhost:8000" >>

\* lines 26-50: the session url after the module level ran; update is the
\* "Update API URL" button, input the value of the text input
module_level_autosave(url, input, update) == Strip(input)

module_level(url, input, update) ==
    IF update THEN Strip(input)
    ELSE IF url = Unset THEN DEFAULT_API_URL ELSE url

Pages == { "Overview", "Test Routing", "Agent Status", "Analytics", "API Test" }

\* what a page function contributes to a pass
Out(fn, reqs, lines, rows, nts, shown, res, disp, exc) ==
    [dispatched |-> fn, requests |-> reqs, activity |-> lines, agent_rows |-> rows,
     notes |-> nts, analytics |-> shown, result |-> res, display |-> disp,
     raised |-> exc]

OverviewOut(base, resp) ==
    LET o == show_overview(resp) IN
    Out("show_overview",
        << Request("show_overview", "GET", "/api/v1/analytics/recent-routings",
                   base, resp) >>,
        o.lines, << >>, o.notes, NoAnalytics, NoResult, NoDisplay, FALSE)

AgentStatusOut(base, resp, strict) ==
    LET o == show_agent_status(resp, strict) IN
    Out("show_agent_status",
        << Request("show_agent_status", "GET", "/api/v1/agents/status", base, resp) >>,
        << >>, o.rows, o.notes, NoAnalytics, NoResult, NoDisplay, FALSE)

AnalyticsOut(plotly, ndays) ==
    LET o == show_analytics(plotly, ndays) IN
    Out("show_analytics", << >>, << >>, << >>, << >>, o.shown, NoResult, NoDisplay,
        o.raised)

\* show_test_routing: click is the "Test Routing" button
TestRoutingOut(base, click, resp, plotly) ==
    LET r == route_test_message(resp)
        req == << Request("route_test_message", "POST", "/api/v1/route", base, resp) >>
        shows == r.returned /\ ResultTruthy(resp.body)
        disp == IF ~shows THEN NoDisplay
                ELSE IF ~resp.body.dict THEN display_non_dict
                ELSE display_routing_result(resp.body.res, plotly)
    IN IF ~click
       THEN Out("show_test_routing", << >>, << >>, << >>, << >>, NoAnalytics,
                NoResult, NoDisplay, FALSE)
       ELSE Out("show_test_routing", req, << >>, << >>, r.notes, NoAnalytics,
                IF shows /\ resp.body.dict THEN resp.body.res ELSE NoResult,
                disp, disp.raised)

\* show_api_test: click is the "Test All Endpoints" button
ApiTestOut(base, click, resps) ==
    LET t == test_all_endpoints(base, resps) IN
    IF ~click
    THEN Out("show_api_test", << >>, << >>, << >>, << >>, NoAnalytics,
             NoResult, NoDisplay, FALSE)
    ELSE Out("show_api_test", t.requests, << >>, << >>, t.notes, NoAnalytics,
             NoResult, NoDisplay, FALSE)

-----------------------------------------------------------------------------
(* What the user can type and what the service can answer *)

TunnelUrl == << "https://abc123.loca.lt" >>

Spaces(n) == [i \in 1..n |-> " "]

\* the texts the user can leave in the API url input: the default, and a
\* tunnel url or nothing between up to MaxPad blanks on either side
UrlTexts ==
    { DEFAULT_API_URL }
    \cup { Spaces(n) \o TunnelUrl \o Spaces(n) : n \in 0..MaxPad }
    \cup { Spaces(n) : n \in 0..MaxPad }

NoBody == [json |-> FALSE]

Timeout == Outcome(TRUE, 0, NoBody)

HealthOutcomes ==
    { Timeout, Outcome(FALSE, 200, [json |-> TRUE]), Outcome(FALSE, 500, NoBody) }

TestHealthOutcomes ==
    HealthOutcomes \cup { Outcome(FALSE, 200, [json |-> FALSE]) }

GoodRouting == Routing(Str(W_stamp), Str(W_sales), Str(W_agent), Num(85))
PlainRouting == Routing(Str(W_stamp), Str(W_support), Str(W_agent), Absent)

RoutingLists ==
    { << >>,
      << GoodRouting >>,
      << PlainRouting, GoodRouting >>,
      << GoodRouting, Routing(Str(W_stamp), Absent, Str(W_agent), Num(0)) >>,
      << Routing(Str(W_angry), Str(W_sales), Str(W_agent), Absent) >>,
      << GoodRouting, PlainRouting, GoodRouting, PlainRouting, GoodRouting,
         Routing(Str(W_stamp), Str(W_sales), Absent, Absent) >> }

NoRoutings == RoutingsBody(FALSE, << >>)

RoutingsOutcomes ==
    { Outcome(TRUE, 0, NoRoutings), Outcome(FALSE, 503, NoRoutings),
      Outcome(FALSE, 200, NoRoutings) }
    \cup { Outcome(FALSE, 200, RoutingsBody(TRUE, l)) : l \in RoutingLists }

NoAgents == AgentsBody(FALSE, FALSE, << >>, FALSE, << >>)

A(active, max) == Agent(Str(W_agent), Num(active), Num(max), Num(90))

AgentsBodies ==
    { AgentsBody(TRUE, FALSE, << >>, FALSE, << >>),
      AgentsBody(TRUE, TRUE, << A(8, 10) >>, TRUE, << A(6, 10) >>),
      AgentsBody(TRUE, TRUE, << A(12, 10) >>, TRUE, << A(1, 4) >>),
      AgentsBody(TRUE, TRUE, << A(5, 10), A(1, 0) >>, TRUE, << A(1, 4) >>),
      AgentsBody(TRUE, TRUE, << >>, TRUE,
                 << A(9, 10), Agent(Absent, Num(1), Num(2), Num(90)) >>),
      AgentsBody(TRUE, FALSE, << >>, TRUE,
                 << Agent(Str(W_agent), Null, Num(2), Absent) >>) }

AgentsOutcomes ==
    { Outcome(TRUE, 0, NoAgents), Outcome(FALSE, 404, NoAgents),
      Outcome(FALSE, 200, NoAgents) }
    \cup { Outcome(FALSE, 200, b) : b \in AgentsBodies }

\* a result with the given values and every other key missing
Result(intent, sentiment, urgency, confidence, alps_score) ==
    [NoResult EXCEPT !["intent"] = intent, !["sentiment"] = sentiment,
                     !["urgency"] = urgency, !["confidence"] = confidence,
                     !["alps_score"] = alps_score]

\* the response of the scenario of the specification
SalesResult ==
    [Result(Str(W_sales), Str(W_positive), Str(W_high), Num(910), Num(85))
        EXCEPT !["assigned_agent"] = Str(W_agent), !["escalated"] = Bool(FALSE),
               !["routing_reason"] = Str(W_reason),
               !["priority_level"] = Str(W_high),
               !["score_breakdown"] = Dict(W_crit, 25)]

SupportResult ==
    [SalesResult EXCEPT !["intent"] = Str(W_support), !["alps_score"] = Absent,
                        !["sentiment"] = Str(W_negative), !["escalated"] = Bool(TRUE),
                        !["score_breakdown"] = Absent, !["priority_level"] = Absent]

RouteResults ==
    { SalesResult, SupportResult, NoResult,
      [SalesResult EXCEPT !["intent"] = Null],
      [SalesResult EXCEPT !["alps_score"] = Num(60), !["priority_level"] = Str(W_high)],
      [SalesResult EXCEPT !["alps_score"] = Null],
      [SupportResult EXCEPT !["confidence"] = Str(W_high)],
      [SupportResult EXCEPT !["assigned_agent"] = Null, !["sentiment"] = Absent] }

NoRoute == RouteBody(FALSE, FALSE, FALSE, NoResult)

RouteOutcomes ==
    { Outcome(TRUE, 0, NoRoute), Outcome(FALSE, 500, NoRoute),
      Outcome(FALSE, 200, NoRoute),
      Outcome(FALSE, 200, RouteBody(TRUE, FALSE, FALSE, NoResult)),
      Outcome(FALSE, 200, RouteBody(TRUE, TRUE, TRUE, NoResult)) }
    \cup { Outcome(FALSE, 200, RouteBody(TRUE, TRUE, FALSE, r)) : r \in RouteResults }

-----------------------------------------------------------------------------
(* Render passes *)

\* main(): the page function of the selected page, with every answer the
\* service can give.  click is the button of that page.
main(pg, base, click, plotly) ==
    CASE pg = "Overview" ->
            { OverviewOut(base, r) : r \in RoutingsOutcomes }
      [] pg = "Test Routing" ->
            { TestRoutingOut(base, click, r, plotly) :
                r \in IF click THEN RouteOutcomes ELSE { Timeout } }
      [] pg = "Agent Status" ->
            { AgentStatusOut(base, r, strict) :
                r \in AgentsOutcomes, strict \in BOOLEAN }
      [] pg = "Analytics" ->
            { AnalyticsOut(plotly, n) : n \in 0..MaxDates }
      [] pg = "API Test" ->
            { ApiTestOut(base, click, << h, a, r >>) :
                h \in IF click THEN TestHealthOutcomes ELSE { Timeout },
                a \in IF click THEN { Timeout, Outcome(FALSE, 200, NoAgents) }
                      ELSE { Timeout },
                r \in IF click THEN { Timeout, Outcome(FALSE, 200, NoRoutings) }
                      ELSE { Timeout } }

\* One run of the script: module level, check_api_status, then the page.
Pass(input, update, pg, click) ==
    LET base == module_level(api_url, input, update) IN
    \E h \in HealthOutcomes : \E out \in main(pg, base, click, plotly_available) :
        /\ api_url' = base
        /\ api_url_input' = input
        /\ page' = pg
        /\ indicator' = check_api_status(h)
        /\ dispatched' = out.dispatched
        /\ requests' = << Request("check_api_status", "GET", "/health", base, h) >>
                       \o out.requests
        /\ activity' = out.activity
        /\ agent_rows' = out.agent_rows
        /\ notes' = (IF update THEN << "URL Updated!" >> ELSE << >>) \o out.notes
        /\ analytics' = out.analytics
        /\ result' = out.result
        /\ display' = out.display
        /\ raised' = out.raised
        /\ UNCHANGED plotly_available

Blank ==
    /\ indicator = "none"
    /\ dispatched = "none"
    /\ requests = << >>
    /\ activity = << >>
    /\ agent_rows = << >>
    /\ notes = << >>
    /\ analytics = NoAnalytics
    /\ result = NoResult
    /\ display = NoDisplay
    /\ raised = FALSE

Init ==
    /\ api_url = Unset
    /\ api_url_input = DEFAULT_API_URL
    /\ page = "Overview"
    /\ plotly_available \in BOOLEAN
    /\ Blank

\* the browser opens the dashboard: the first run of the script
LoadPage ==
    /\ api_url = Unset
    /\ Pass(DEFAULT_API_URL, FALSE, "Overview", FALSE)

\* the user edits the API url input
EditApiUrl ==
    /\ api_url # Unset
    /\ \E t \in UrlTexts : t # api_url_input /\ Pass(t, FALSE, page, FALSE)

\* the user presses "Update API URL"
ClickUpdateApiUrl ==
    /\ api_url # Unset
    /\ Pass(api_url_input, TRUE, page, FALSE)

\* the user chooses a page in the navigation
SelectPage ==
    /\ api_url # Unset
    /\ \E p \in Pages : Pass(api_url_input, FALSE, p, FALSE)

\* the user presses "Test Routing"
ClickTestRouting ==
    /\ api_url # Unset
    /\ page = "Test Routing"
    /\ Pass(api_url_input, FALSE, page, TRUE)

\* the user presses "Test All Endpoints"
ClickTestAllEndpoints ==
    /\ api_url # Unset
    /\ page = "API Test"
    /\ Pass(api_url_input, FALSE, page, TRUE)

Next ==
    \/ LoadPage
    \/ EditApiUrl
    \/ ClickUpdateApiUrl
    \/ SelectPage
    \/ ClickTestRouting
    \/ ClickTestAllEndpoints

Spec == Init /\ [][Next]_vars

-----------------------------------------------------------------------------
(* The agent page over every load: one agent per team, active and max       *)
(* chats anywhere in 0..MaxChats.                                           *)

\* a page function ran on its own: what it rendered replaces the last pass
Apply(out) ==
    /\ dispatched' = out.dispatched
    /\ requests' = out.requests
    /\ activity' = out.activity
    /\ agent_rows' = out.agent_rows
    /\ notes' = out.notes
    /\ analytics' = out.analytics
    /\ result' = out.result
    /\ display' = out.display
    /\ raised' = out.raised
    /\ UNCHANGED << api_url, api_url_input, page, plotly_available, indicator >>

\* the page is left: nothing of the last pass remains
Clear ==
    /\ dispatched # "none"
    /\ Apply(Out("none", << >>, << >>, << >>, << >>, NoAnalytics, NoResult,
                 NoDisplay, FALSE))

InitAgents ==
    /\ api_url = DEFAULT_API_URL
    /\ api_url_input = DEFAULT_API_URL
    /\ page = "Agent Status"
    /\ plotly_available = TRUE
    /\ Blank

\* show_agent_status with a 200 answer holding one agent in each team
FetchAgentStatus ==
    /\ dispatched = "none"
    /\ \E a1 \in 0..MaxChats, m1 \in 0..MaxChats, a2 \in 0..MaxChats,
          m2 \in 0..MaxChats, strict \in BOOLEAN :
          Apply(AgentStatusOut(api_url,
                    Outcome(FALSE, 200,
                            AgentsBody(TRUE, TRUE, << A(a1, m1) >>,
                                       TRUE, << A(a2, m2) >>)),
                    strict))

\* show_agent_status with a failed request
FetchAgentStatusFailed ==
    /\ dispatched = "none"
    /\ \E r \in { Timeout, Outcome(FALSE, 404, NoAgents), Outcome(FALSE, 200, NoAgents) } :
          Apply(AgentStatusOut(api_url, r, TRUE))

NextAgents == FetchAgentStatus \/ FetchAgentStatusFailed \/ Clear

SpecAgents == InitAgents /\ [][NextAgents]_vars

-----------------------------------------------------------------------------
(* display_routing_result over every result of the families below           *)

Sentiments ==
    Casings(W_positive) \cup Casings(W_negative) \cup Casings(W_neutral)
    \cup { W_NA, W_angry, W_veryhigh, << >>, W_high }

Urgencies ==
    Casings(W_high) \cup Casings(W_medium) \cup Casings(W_low)
    \cup { W_NA, W_angry, W_veryhigh, << >>, W_positive }

Unexpected == { Null, Num(7), Str(W_angry), Bool(TRUE) }

DisplayInputs ==
    \* any subset of the keys is missing
    { [k \in ResultKeys |-> IF k \in K THEN Absent ELSE SalesResult[k]] :
        K \in SUBSET ResultKeys }
    \* one key carries an unexpected value
    \cup { [SalesResult EXCEPT ![k] = v] : k \in ResultKeys, v \in Unexpected }
    \cup { [SupportResult EXCEPT !["sentiment"] = Str(w)] : w \in Sentiments }
    \cup { [SupportResult EXCEPT !["urgency"] = Str(w)] : w \in Urgencies }
    \* intent, score and priority level in every combination
    \cup { [SalesResult EXCEPT !["intent"] = i, !["alps_score"] = x,
                               !["priority_level"] = p] :
             i \in { Str(W_sales), Str(Title(W_sales)), Str(W_support), Absent },
             x \in { Absent } \cup { Num(n) : n \in 0..MaxScore },
             p \in { Absent, Str(W_high), Str(W_medium), Str(W_low) } }

InitDisplay ==
    /\ api_url = DEFAULT_API_URL
    /\ api_url_input = DEFAULT_API_URL
    /\ page = "Test Routing"
    /\ plotly_available \in BOOLEAN
    /\ Blank

\* display_routing_result(result) for a result the service returned with 200
DisplayResult ==
    /\ dispatched = "none"
    /\ \E r \in DisplayInputs :
          LET d == display_routing_result(r, plotly_available) IN
          Apply(Out("display_routing_result", << >>, << >>, << >>, << >>,
                    NoAnalytics, r, d, d.raised))

NextDisplay == DisplayResult \/ Clear

SpecDisplay == InitDisplay /\ [][NextDisplay]_vars

-----------------------------------------------------------------------------
(* Properties *)

Failed(req) == req.exc \/ req.status # 200

RequestsOf(site) == { i \in DOMAIN requests : requests[i].site = site }

DemoRows == { i \in DOMAIN agent_rows : agent_rows[i].src = "demo" }
DemoLines == { i \in DOMAIN activity : activity[i].src = "demo" }

\* C1: whenever the agent-status fetch or the recent-routings fetch fails, by
\* raising or by a non-200 status, the view ends by rendering its demo data:
\* show_agent_status the demo agent rows, show_overview the demo activity.
C1_DemoOnFailedFetch ==
    /\ (dispatched = "show_agent_status"
          /\ \E i \in RequestsOf("show_agent_status") : Failed(requests[i]))
       => DemoRows # {}
    /\ (dispatched = "show_overview"
          /\ \E i \in RequestsOf("show_overview") : Failed(requests[i]))
       => DemoLines # {}

ClaimLabel(key) ==
    CASE key = "intent" -> "Intent"
      [] key = "sentiment" -> "Sentiment"
      [] key = "urgency" -> "Urgency"
      [] key = "assigned_agent" -> "Assigned Agent"
      [] key = "routing_reason" -> "Routing Reason"

\* C2: for every result returned with 200, whatever fields are missing or
\* carry an unexpected value, display_routing_result completes without
\* raising, and a missing or non-string intent, sentiment, urgency,
\* assigned_agent or routing_reason is rendered as 'N/A'.
C2_NeverRaises ==
    dispatched = "display_routing_result" =>
        /\ ~display.raised
        /\ \A key \in { "intent", "sentiment", "urgency", "assigned_agent",
                        "routing_reason" } :
              result[key].t # "str" =>
                  \E it \in ItemsLabelled(display, ClaimLabel(key)) : it.v = W_NA

\* a live activity entry is read through these keys (time stands for assigned_at)
ClaimActivityFields == { "time", "intent", "agent_id", "alps_score" }
ClaimAgentFields == { "name", "active_chats", "max_chats", "performance" }

TimeKey(fields) == { IF k = "assigned_at" THEN "time" ELSE k : k \in fields }

\* C3: the demo path and the live path expose the same field set: every
\* activity entry, live or demo, has the fields time/assigned_at, intent,
\* agent_id and alps_score, and the demo agent status has the team groups
\* sales and support with the per-agent fields of the live response.
C3_SameFieldSets ==
    /\ \A i \in DOMAIN activity : TimeKey(activity[i].fields) = ClaimActivityFields
    /\ DemoRows # {} =>
          /\ { agent_rows[i].team : i \in DemoRows } = { "sales", "support" }
          /\ \A i \in DemoRows : agent_rows[i].fields = ClaimAgentFields

ClaimBadge(status) == IF status = "Available" THEN "Ready" ELSE status

\* C4: for every agent with max_chats > 0 and active_chats >= 0 the status
\* is Overloaded iff load_pct >= 80, Busy iff 60 <= load_pct < 80 and
\* Available iff load_pct < 60; the live sales loop, the live support loop
\* and the demo loop classify the same load the same way, and the badge of
\* the status column is in the band of the status label.
C4_LoadBands ==
    /\ \A i \in DOMAIN agent_rows :
          LET r == agent_rows[i] IN
          (r.computed /\ r.max > 0 /\ r.active >= 0) =>
              /\ r.status = "Overloaded" <=> r.active * 100 >= 80 * r.max
              /\ r.status = "Busy" <=> /\ r.active * 100 >= 60 * r.max
                                       /\ r.active * 100 < 80 * r.max
              /\ r.status = "Available" <=> r.active * 100 < 60 * r.max
              /\ r.badge # "" => r.badge = ClaimBadge(r.status)
    /\ \A i, j \in DOMAIN agent_rows :
          LET r == agent_rows[i]
              q == agent_rows[j]
          IN (r.computed /\ q.computed /\ r.max > 0 /\ q.max > 0
                /\ r.active * q.max = q.active * r.max) =>
                 /\ r.status = q.status
                 /\ (r.badge # "" /\ q.badge # "") => r.badge = q.badge

\* 8 of 10 is Overloaded in the sales loop, 6 of 10 is Busy in the support loop
C4_Witness ==
    \E i, j \in DOMAIN agent_rows :
        /\ agent_rows[i].team = "sales" /\ agent_rows[i].src = "live"
        /\ agent_rows[i].active = 8 /\ agent_rows[i].max = 10
        /\ agent_rows[i].status = "Overloaded" /\ agent_rows[i].badge = "Overloaded"
        /\ agent_rows[j].team = "support" /\ agent_rows[j].src = "live"
        /\ agent_rows[j].active = 6 /\ agent_rows[j].max = 10
        /\ agent_rows[j].status = "Busy" /\ agent_rows[j].badge = "Busy"

Bands == ItemsOfKind(display, "band")

\* C5: when the priority band is rendered exactly one band is shown; it is
\* HIGH PRIORITY iff alps_score >= 80, MEDIUM PRIORITY iff 60 <= alps_score
\* < 80 and STANDARD iff alps_score < 60, whatever priority_level says.
C5_PriorityBand ==
    /\ Cardinality({ i \in DOMAIN display.items : display.items[i].w = "band" }) <= 1
    /\ \A b \in Bands :
          LET x == result["alps_score"] IN
          /\ x.t \in { "num", "bool" }
          /\ b.k = "HIGH PRIORITY LEAD" <=> x.n >= 80
          /\ b.k = "MEDIUM PRIORITY LEAD" <=> (x.n >= 60 /\ x.n < 80)
          /\ b.k = "STANDARD LEAD" <=> x.n < 60

\* a score of 80 with priority_level low is shown as HIGH PRIORITY
C5_Witness ==
    /\ result["alps_score"] = Num(80)
    /\ result["priority_level"] = Str(W_low)
    /\ \E b \in Bands : b.k = "HIGH PRIORITY LEAD"

PageFunction(pg) ==
    CASE pg = "Overview" -> "show_overview"
      [] pg = "Test Routing" -> "show_test_routing"
      [] pg = "Agent Status" -> "show_agent_status"
      [] pg = "Analytics" -> "show_analytics"
      [] pg = "API Test" -> "show_api_test"

\* C6: in every pass check_api_status shows exactly one of Online, Error,
\* Offline: Online iff GET /health returned 200, Error iff it returned
\* another status, Offline iff the request raised; and the selected page is
\* dispatched afterwards.
C6_HealthIndicator ==
    dispatched # "none" =>
        /\ RequestsOf("check_api_status") = { 1 }
        /\ requests[1].endpoint = "/health"
        /\ indicator \in { "Online", "Error", "Offline" }
        /\ indicator = "Online" <=> (~requests[1].exc /\ requests[1].status = 200)
        /\ indicator = "Error" <=> (~requests[1].exc /\ requests[1].status # 200)
        /\ indicator = "Offline" <=> requests[1].exc
        /\ dispatched = PageFunction(page)

\* the health request timed out and the agent page was still dispatched
C6_Witness ==
    /\ indicator = "Offline"
    /\ requests[1].exc
    /\ dispatched = "show_agent_status"

RECURSIVE SeqSum(_)
SeqSum(q) == IF q = << >> THEN 0 ELSE Head(q) + SeqSum(Tail(q))

SeqMax(q) == CHOOSE x \in { q[i] : i \in DOMAIN q } : \A i \in DOMAIN q : q[i] <= x
SeqMin(q) == CHOOSE x \in { q[i] : i \in DOMAIN q } : \A i \in DOMAIN q : x <= q[i]

\* a / b rounded to the nearest integer
RoundDiv(a, b) == (2 * a + b) \div (2 * b)

\* the percentages of the counts, in tenths of a percent
Percentages(counts) ==
    [i \in DOMAIN counts |-> RoundDiv(1000 * counts[i], SeqSum(counts))]

\* C7: without charting, every number of show_text_analytics is the value
\* computed from the series the graphical path plots: the percentages of
\* the intent counts and of the priority counts, the average, highest and
\* lowest of the ALPS scores, the average and peak of the daily messages;
\* and each percentage group sums to 100% within rounding.
C7_TextMatchesSeries ==
    analytics.mode = "text" =>
        LET daily == SubSeq(daily_messages, 1, DefaultDates) IN
        /\ analytics.intent_counts = intent_counts
        /\ analytics.intent_pct = Percentages(intent_counts)
        /\ analytics.priority_counts = priority_counts
        /\ analytics.priority_pct = Percentages(priority_counts)
        /\ analytics.alps_avg = RoundDiv(SeqSum(alps_scores), Len(alps_scores))
        /\ analytics.alps_high = SeqMax(alps_scores)
        /\ analytics.alps_low = SeqMin(alps_scores)
        /\ analytics.daily_avg = RoundDiv(SeqSum(daily), Len(daily))
        /\ analytics.daily_peak = SeqMax(daily)
        /\ SeqSum(analytics.intent_pct) \in 999..1001
        /\ SeqSum(analytics.priority_pct) \in 999..1001

UpdateShown == notes # << >> /\ notes[1] = "URL Updated!"

\* text is stripped: it is input without its leading and trailing blanks
IsStripped(text, input) ==
    /\ text = << >> \/ (text[1] # " " /\ text[Len(text)] # " ")
    /\ \E l \in 0..Len(input), r \in 0..Len(input) :
          input = Spaces(l) \o text \o Spaces(r)

\* C8: the session url starts as http://localhost:8000; it changes only in
\* a pass where "Update API URL" fires, and then it is the stripped text of
\* the input; and every request of a pass goes to the session url as it is
\* after that pass's update.
C8_UrlFrame ==
    [][ /\ api_url = Unset => api_url' = DEFAULT_API_URL
        /\ (api_url # Unset /\ api_url' # api_url) => UpdateShown'
        /\ UpdateShown' => IsStripped(api_url', api_url_input')
        /\ \A i \in DOMAIN requests' : requests'[i].base = api_url' ]_vars

\* the update button set the url to the tunnel url typed between blanks
C8_Witness ==
    /\ UpdateShown
    /\ api_url = TunnelUrl
    /\ api_url_input = << " " >> \o TunnelUrl \o << " " >>
    /\ requests # << >>

\* C9 as stated: in any pass each HTTP call site issues at most one request.
C9_OneRequestPerSite ==
    \A i, j \in DOMAIN requests :
        requests[i].site = requests[j].site => i = j

\* C9 amended: no request is retried: in a pass each call site issues at
\* most one request to an endpoint, also after that request failed; only
\* /health is requested by two call sites in one pass, check_api_status
\* and test_all_endpoints.
C9_NoRetry ==
    \A i, j \in DOMAIN requests :
        (i # j /\ requests[i].endpoint = requests[j].endpoint) =>
            /\ requests[i].site # requests[j].site
            /\ requests[i].endpoint = "/health"
            /\ { requests[i].site, requests[j].site }
                  = { "check_api_status", "test_all_endpoints" }

\* all endpoints were tested while /health was failing
C9_Witness ==
    /\ Len(requests) = 4
    /\ requests[1].exc
    /\ requests[2].site = "test_all_endpoints" /\ requests[2].exc
    /\ requests[4].site = "test_all_endpoints"

IsTitleCased(v) ==
    \A i \in DOMAIN v :
        IsCased(v[i]) =>
            IF i > 1 /\ IsCased(v[i-1]) THEN IsLower(v[i]) ELSE IsUpper(v[i])

ClaimColor(key, word) ==
    IF key = "sentiment"
    THEN CASE word = W_positive -> "green"
           [] word = W_negative -> "red"
           [] word = W_neutral  -> "yellow"
           [] OTHER             -> "white"
    ELSE CASE word = W_high   -> "red"
           [] word = W_medium -> "yellow"
           [] word = W_low    -> "green"
           [] OTHER           -> "white"

\* the metrics drawn before the one of key
Before(key) == IF key = "sentiment" THEN { "intent" } ELSE { "intent", "sentiment" }

\* C10: for every string sentiment and urgency (and the 'N/A' of a missing
\* one) the metric shows the title-cased string with the color tag of the
\* claim, whatever the case of the input: Positive, Negative, Neutral are
\* green, red, yellow; High, Medium, Low are red, yellow, green; any other
\* string is white; and the metric is drawn, nothing raises.
C10_ColorTags ==
    dispatched = "display_routing_result" =>
        \A key \in { "sentiment", "urgency" } :
            LET v == Get(result, key, Str(W_NA))
                its == ItemsLabelled(display, ClaimLabel(key))
            IN (v.t = "str"
                  /\ \A k \in Before(key) : Get(result, k, Str(W_NA)).t = "str") =>
                   /\ Cardinality(its) = 1
                   /\ \A it \in its :
                         /\ IsTitleCased(it.v)
                         /\ LowerCase(it.v) = LowerCase(v.s)
                         /\ it.c = ClaimColor(key, LowerCase(v.s))

\* POSITIVE is shown as a green Positive
C10_Witness ==
    /\ dispatched = "display_routing_result"
    /\ result["sentiment"] = Str(<< "P","O","S","I","T","I","V","E" >>)
    /\ \E it \in ItemsLabelled(display, "Sentiment") :
          it.c = "green" /\ it.v = << "P","o","s","i","t","i","v","e" >>

LiveLinesShown == { i \in DOMAIN activity : activity[i].src = "live" }
LiveRowsShown == { i \in DOMAIN agent_rows :
                     agent_rows[i].src = "live" /\ agent_rows[i].named }

\* C11: in one pass a data view shows live data or demo data, never both:
\* once show_overview has written a live activity entry, or
\* show_agent_status has drawn a live agent row, no demo entry is rendered
\* in that pass, even when a later entry of the same 200 answer is malformed.
C11_LiveOrDemo ==
    /\ LiveLinesShown # {} => DemoLines = {}
    /\ LiveRowsShown # {} => DemoRows = {}

AlpsShown ==
    /\ \E it \in ItemsOfKind(display, "subheader") : it.k = "ALPS Scoring Analysis"
    /\ Bands # {}

ClaimShowsAlps ==
    /\ result["intent"].t = "str"
    /\ result["intent"].s = << "s","a","l","e","s" >>
    /\ result["alps_score"].t # "absent"

\* C12: display_routing_result renders the ALPS section with a priority
\* band iff the raw intent is exactly 'sales' and the key alps_score is in
\* the result; any other result gets no priority band; and the
\* classification metrics and the routing decision (assigned agent,
\* escalated or standard routing, routing reason) are rendered for every
\* result.
C12_AlpsSection ==
    dispatched = "display_routing_result" =>
        /\ AlpsShown <=> ClaimShowsAlps
        /\ ~ClaimShowsAlps => Bands = {}
        /\ \A k \in { "Intent", "Sentiment", "Urgency", "Confidence",
                      "Assigned Agent", "Routing Reason" } :
              ItemsLabelled(display, k) # {}
        /\ ItemsOfKind(display, "routing") # {}

====
